---- MODULE Spec2Model ----
(***************************************************************************)
(* A model of src/src/bigram_model.py: the character-level bigram model.   *)
(*                                                                         *)
(* Conventions                                                             *)
(*  - A Python str is a sequence of one-character strings, so that         *)
(*    "<S>" is <<"<", "S", ">">> and indexing a str yields one character.  *)
(*  - A tensor entry is a fraction [num, den] of integers.  den = 0 is     *)
(*    what IEEE division produces for a zero divisor: 0/0 is NaN and       *)
(*    x/0 (x > 0) is +inf.  Arithmetic is exact (rounding of float32 is    *)
(*    not modelled).                                                       *)
(*  - A sum of natural logarithms is kept as the logarithm of a product:   *)
(*    the value [num, den] of a log-likelihood stands for ln(num/den).     *)
(*  - A call that raises leaves the exception's name in `raised`.          *)
(***************************************************************************)
EXTENDS Integers, Sequences, FiniteSets

VARIABLES
    pc,                   \* position of the running call
    raised,               \* name of the exception the call raised, or "none"
    \* bigrams_count_to_probabilities
    bigram_counts, smooth_factor, probabilities,
    \* the vocabulary and the probability matrix the other calls are given
    char_to_index, idx_to_char, start_token, end_token, bigram_probabilities,
    \* calculate_neg_mean_log_likelihood
    words, word_pos, total_log_likelihood, mean_log_likelihood,
    \* calculate_log_likelihood
    processed_word, char_pos, log_likelihood, bigrams, returned,
    \* sample_next_character
    current_char_index, next_char,
    \* generate_name
    max_length, current_char, generated_name, iteration, sampler_calls, sampled

buildVars == <<bigram_counts, smooth_factor, probabilities>>

vocabVars == <<char_to_index, idx_to_char, start_token, end_token,
               bigram_probabilities>>

corpusVars == <<words, word_pos, total_log_likelihood, mean_log_likelihood>>

wordVars == <<processed_word, char_pos, log_likelihood, bigrams, returned>>

sampleVars == <<current_char_index, next_char>>

genVars == <<max_length, current_char, generated_name, iteration,
             sampler_calls, sampled>>

vars == <<pc, raised, buildVars, vocabVars, corpusVars, wordVars, sampleVars,
          genVars>>

(***************************************************************************)
(* Bounds of the model.                                                    *)
(***************************************************************************)
MaxCount == 1        \* largest bigram count in a generated count matrix
MaxSmooth == 2       \* largest smoothing constant
MaxWordLen == 2      \* longest word scored
MaxWords == 2        \* longest corpus scored
MaxLen == 4          \* largest max_length passed to generate_name

Unused == "unused"   \* value of a variable the running call does not have

NoBuild == bigram_counts = Unused /\ smooth_factor = Unused /\ probabilities = Unused

NoVocab ==
    /\ char_to_index = Unused /\ idx_to_char = Unused
    /\ start_token = Unused /\ end_token = Unused
    /\ bigram_probabilities = Unused

NoCorpus ==
    /\ words = Unused /\ word_pos = Unused
    /\ total_log_likelihood = Unused /\ mean_log_likelihood = Unused

NoWord ==
    /\ processed_word = Unused /\ char_pos = Unused /\ log_likelihood = Unused
    /\ bigrams = Unused /\ returned = Unused

NoSample == current_char_index = Unused /\ next_char = Unused

NoGen ==
    /\ max_length = Unused /\ current_char = Unused /\ generated_name = Unused
    /\ iteration = Unused /\ sampler_calls = Unused /\ sampled = Unused

(***************************************************************************)
(* Numbers: fractions with a possibly zero denominator.                    *)
(***************************************************************************)
Frac(n, d) == [num |-> n, den |-> d]

NaN == Frac(0, 0)

IsNaN(x) == x.den = 0 /\ x.num = 0

IsFinite(x) == x.den # 0

\* Tensor division of two integers (true division, IEEE on a zero divisor).
TrueDiv(a, b) ==
    IF b = 0 THEN (IF a = 0 THEN NaN ELSE Frac(IF a > 0 THEN 1 ELSE -1, 0))
    ELSE IF b < 0 THEN Frac(-a, -b) ELSE Frac(a, b)

RECURSIVE GCD(_, _)
GCD(a, b) == IF b = 0 THEN a ELSE GCD(b, a % b)

\* a finite fraction in lowest terms
Reduce(x) ==
    LET g == GCD(IF x.num < 0 THEN -x.num ELSE x.num, x.den)
    IN Frac(x.num \div g, x.den \div g)

FracEq(x, y) == IsFinite(x) /\ IsFinite(y) /\ Reduce(x) = Reduce(y)

FracLe(x, y) == IsFinite(x) /\ IsFinite(y) /\ x.num * y.den <= y.num * x.den

FracAdd(x, y) ==
    IF IsNaN(x) \/ IsNaN(y) THEN NaN
    ELSE IF x.den = 0 THEN x
    ELSE IF y.den = 0 THEN y
    ELSE Reduce(Frac(x.num * y.den + y.num * x.den, x.den * y.den))

\* ln x + ln y = ln (x * y); NaN propagates
FracMul(x, y) ==
    IF ~IsFinite(x) \/ ~IsFinite(y) THEN NaN
    ELSE Reduce(Frac(x.num * y.num, x.den * y.den))

Zero == Frac(0, 1)

One == Frac(1, 1)

RECURSIVE SumInts(_, _)
\* sum of f over the finite index set S
SumInts(f, S) ==
    IF S = {} THEN 0
    ELSE LET i == CHOOSE k \in S : TRUE IN f[i] + SumInts(f, S \ {i})

RECURSIVE SumFracs(_, _)
SumFracs(f, S) ==
    IF S = {} THEN Zero
    ELSE LET i == CHOOSE k \in S : TRUE IN FracAdd(f[i], SumFracs(f, S \ {i}))

(***************************************************************************)
(* bigrams_count_to_probabilities (lines 5-28).                            *)
(***************************************************************************)
\* line 25: bigram_counts + smooth_factor
Smoothed(counts, smooth) ==
    [i \in DOMAIN counts |-> [j \in DOMAIN counts[i] |-> counts[i][j] + smooth]]

\* the sums along the other dimension: sum(dim=0)
DenominatorOverColumns(smoothed) ==
    [i \in DOMAIN smoothed |->
        SumInts([k \in DOMAIN smoothed |-> smoothed[k][i]], DOMAIN smoothed)]

\* line 26: smoothed_bigram_counts.sum(dim=1).unsqueeze(1)
Denominator(smoothed) ==
    [i \in DOMAIN smoothed |-> SumInts(smoothed[i], DOMAIN smoothed[i])]

\* line 27: smoothed_bigram_counts / denominator (broadcast over each row)
bigrams_count_to_probabilities(counts, smooth) ==
    LET smoothed == Smoothed(counts, smooth)
        denominator == Denominator(smoothed)
    IN [i \in DOMAIN smoothed |->
           [j \in DOMAIN smoothed[i] |-> TrueDiv(smoothed[i][j], denominator[i])]]

(***************************************************************************)
(* Vocabularies.  A symbol is a Python str; the two mappings are the       *)
(* dicts char_to_idx (symbol -> index) and idx_to_char (index -> symbol).  *)
(***************************************************************************)
\* defaults of start_token and end_token (lines 35-36 and 144-145)
DefaultStart == <<"<", "S", ">">>

DefaultEnd == <<"<", "E", ">">>

\* one-character control tokens, as the docstrings ask (lines 49-50, 163-164)
CharStart == <<"^">>

CharEnd == <<"$">>

\* the ordinary symbols of the vocabulary
Ordinary == << <<"a">>, <<"b">> >>

\* index -> symbol: zero-based, dense; start, end, then the ordinary symbols
IdxToChar(start, end) ==
    LET symbols == <<start, end>> \o Ordinary
    IN [i \in 0 .. Len(symbols) - 1 |-> symbols[i + 1]]

VocabSize == Len(Ordinary) + 2

\* symbol -> index: the inverse dict
CharToIdx(itc) ==
    [s \in {itc[i] : i \in DOMAIN itc} |-> CHOOSE i \in DOMAIN itc : itc[i] = s]

TokenPairs == {<<DefaultStart, DefaultEnd>>, <<CharStart, CharEnd>>}

\* the index space of the count matrices that are enumerated exhaustively
BuildIndex == 0 .. 2

(***************************************************************************)
(* Specification of bigrams_count_to_probabilities.                        *)
(***************************************************************************)
CountMatrices == [BuildIndex -> [BuildIndex -> 0 .. MaxCount]]

InitBuild ==
    /\ pc = "call"
    /\ raised = "none"
    /\ bigram_counts \in CountMatrices
    /\ smooth_factor \in 0 .. MaxSmooth
    /\ probabilities = Unused
    /\ NoVocab /\ NoCorpus /\ NoWord /\ NoSample /\ NoGen

\* The whole call: it has no check and no branch, it returns the quotient.
BuildProbabilities ==
    /\ pc = "call"
    /\ probabilities' = bigrams_count_to_probabilities(bigram_counts, smooth_factor)
    /\ pc' = "done"
    /\ UNCHANGED <<raised, bigram_counts, smooth_factor, vocabVars, corpusVars,
                   wordVars, sampleVars, genVars>>

NextBuild == BuildProbabilities

SpecBuild == InitBuild /\ [][NextBuild]_vars

\* the sum, over k, of counts[i][k] + smooth
RowTotal(counts, smooth, i) ==
    SumInts([k \in DOMAIN counts[i] |-> counts[i][k] + smooth], DOMAIN counts[i])

NoZeroRowAfterSmoothing ==
    \A i \in DOMAIN bigram_counts : RowTotal(bigram_counts, smooth_factor, i) # 0

HasAllZeroRow ==
    \E i \in DOMAIN bigram_counts : \A j \in DOMAIN bigram_counts[i] :
        bigram_counts[i][j] = 0

HasUndefinedEntry(matrix) ==
    \E i \in DOMAIN matrix : \E j \in DOMAIN matrix[i] : ~IsFinite(matrix[i][j])

\* C1: for smoothing >= 0 and a non-negative count matrix with no row that is
\* all zero after smoothing, every row of the returned matrix sums to 1, every
\* entry lies in [0, 1], and entry (i, j) is
\* (counts[i][j] + smoothing) / sum_k (counts[i][k] + smoothing).
C1_RowStochastic ==
    (pc = "done" /\ smooth_factor >= 0 /\ NoZeroRowAfterSmoothing) =>
        \A i \in DOMAIN bigram_counts :
            /\ FracEq(SumFracs(probabilities[i], DOMAIN probabilities[i]), One)
            /\ \A j \in DOMAIN bigram_counts[i] :
                /\ FracLe(Zero, probabilities[i][j])
                /\ FracLe(probabilities[i][j], One)
                /\ FracEq(probabilities[i][j],
                          Frac(bigram_counts[i][j] + smooth_factor,
                               RowTotal(bigram_counts, smooth_factor, i)))

\* C1 witness: a smoothed, non-uniform matrix was normalised: row 0 of the
\* counts is [1, 0, 0] with smoothing 1, so row 0 of the result is 2/4, 1/4, 1/4.
C1_Witness ==
    /\ pc = "done"
    /\ smooth_factor = 1
    /\ NoZeroRowAfterSmoothing
    /\ bigram_counts[0] = [j \in BuildIndex |-> IF j = 0 THEN 1 ELSE 0]
    /\ FracEq(probabilities[0][0], Frac(1, 2))
    /\ FracEq(probabilities[0][1], Frac(1, 4))

\* C4: with smoothing = 0 and a count matrix that has an all-zero row the
\* call fails with an error; it never returns a matrix with an undefined
\* (0/0, NaN) entry.
C4_ZeroRowFails ==
    /\ (pc # "call" /\ smooth_factor = 0 /\ HasAllZeroRow) =>
            (pc = "raised" /\ raised # "none")
    /\ pc = "done" => ~HasUndefinedEntry(probabilities)

(***************************************************************************)
(* Probability matrices handed to the scorer, the sampler and the          *)
(* generator: outputs of bigrams_count_to_probabilities over the           *)
(* vocabulary start, end, a, b (indices 0 .. 3).                           *)
(***************************************************************************)
\* a list of rows as a zero-based matrix
Matrix(rows) ==
    [i \in 0 .. Len(rows) - 1 |->
        [j \in 0 .. Len(rows[i + 1]) - 1 |-> rows[i + 1][j + 1]]]

\* counts of a small corpus; nothing is followed by the start token
CorpusCounts ==
    Matrix(<< <<0, 0, 2, 1>>, <<0, 1, 0, 0>>, <<0, 2, 0, 1>>, <<0, 1, 1, 0>> >>)

\* counts of the one-word corpus "ab"
SparseCounts ==
    Matrix(<< <<0, 0, 1, 0>>, <<0, 1, 0, 0>>, <<0, 0, 0, 1>>, <<0, 1, 0, 0>> >>)

\* counts in which the end token follows none of start, a, b
EndlessCounts ==
    Matrix(<< <<0, 0, 1, 1>>, <<0, 1, 0, 0>>, <<0, 0, 1, 1>>, <<0, 0, 2, 0>> >>)

\* exact frequencies: some bigrams have probability 0
Empirical == bigrams_count_to_probabilities(CorpusCounts, 0)

\* add-one smoothing: every bigram has a positive probability
Laplace == bigrams_count_to_probabilities(SparseCounts, 1)

Endless == bigrams_count_to_probabilities(EndlessCounts, 0)

(***************************************************************************)
(* calculate_log_likelihood (lines 140-181).                               *)
(***************************************************************************)
\* str.lower, one character at a time
LowerChar(c) == IF c = "A" THEN "a" ELSE IF c = "B" THEN "b" ELSE c

Lower(word) == [i \in 1 .. Len(word) |-> LowerChar(word[i])]

\* line 170: start_token + word.lower() + end_token
ProcessedWord(word, start, end) == start \o Lower(word) \o end

\* processed_word[i] for a zero-based i: a str of one character
CharAt(str, i) == <<str[i + 1]>>

\* line 173 and the call itself
EnterLogLikelihood ==
    /\ pc = "corpus_loop"
    /\ word_pos < Len(words)
    /\ processed_word' = ProcessedWord(words[word_pos + 1], start_token, end_token)
    /\ log_likelihood' = One
    /\ char_pos' = 1
    /\ bigrams' = <<>>
    /\ pc' = "word_loop"
    /\ UNCHANGED <<raised, buildVars, vocabVars, corpusVars, returned,
                   sampleVars, genVars>>

\* the loop with a lookup that passes over a character it does not know
ScoreBigramSkipping ==
    /\ pc = "word_loop"
    /\ char_pos < Len(processed_word)
    /\ LET prev == CharAt(processed_word, char_pos - 1)
           this == CharAt(processed_word, char_pos)
       IN IF prev \in DOMAIN char_to_index /\ this \in DOMAIN char_to_index
          THEN /\ log_likelihood' =
                    FracMul(log_likelihood,
                        bigram_probabilities[char_to_index[prev]][char_to_index[this]])
               /\ bigrams' = Append(bigrams,
                                    <<char_to_index[prev], char_to_index[this]>>)
          ELSE UNCHANGED <<log_likelihood, bigrams>>
    /\ char_pos' = char_pos + 1
    /\ UNCHANGED <<pc, raised, buildVars, vocabVars, corpusVars, processed_word,
                   returned, sampleVars, genVars>>

\* lines 176-179: one iteration of `for i in range(1, len(processed_word))`
ScoreBigram ==
    /\ pc = "word_loop"
    /\ char_pos < Len(processed_word)
    /\ LET prev == CharAt(processed_word, char_pos - 1)
           this == CharAt(processed_word, char_pos)
       IN IF prev \in DOMAIN char_to_index /\ this \in DOMAIN char_to_index
          THEN LET j == char_to_index[prev]
                   k == char_to_index[this]
               IN /\ log_likelihood' =
                        FracMul(log_likelihood, bigram_probabilities[j][k])
                  /\ bigrams' = Append(bigrams, <<j, k>>)
                  /\ char_pos' = char_pos + 1
                  /\ UNCHANGED <<pc, raised>>
          ELSE /\ pc' = "raised"
               /\ raised' = "KeyError"
               /\ UNCHANGED <<log_likelihood, bigrams, char_pos>>
    /\ UNCHANGED <<buildVars, vocabVars, corpusVars, processed_word, returned,
                   sampleVars, genVars>>

\* line 181, and line 60: the caller adds the returned value to its total
ReturnLogLikelihood ==
    /\ pc = "word_loop"
    /\ char_pos >= Len(processed_word)
    /\ returned' = Append(returned, [value |-> log_likelihood, bigrams |-> bigrams])
    /\ total_log_likelihood' = FracMul(total_log_likelihood, log_likelihood)
    /\ word_pos' = word_pos + 1
    /\ pc' = "corpus_loop"
    /\ UNCHANGED <<raised, buildVars, vocabVars, words, mean_log_likelihood,
                   processed_word, char_pos, log_likelihood, bigrams,
                   sampleVars, genVars>>

(***************************************************************************)
(* calculate_neg_mean_log_likelihood (lines 31-66).                        *)
(***************************************************************************)
\* the number of different words
DistinctWordCount(ws) == Cardinality({ws[i] : i \in 1 .. Len(ws)})

\* the divisor of line 65
WordCount(ws) == Len(ws)

\* line 65: -total_log_likelihood.item() / len(words); a Python float
\* division, which raises on a zero divisor
ReturnNegMean ==
    /\ pc = "corpus_loop"
    /\ word_pos = Len(words)
    /\ IF WordCount(words) = 0
       THEN /\ pc' = "raised"
            /\ raised' = "ZeroDivisionError"
            /\ UNCHANGED mean_log_likelihood
       ELSE /\ mean_log_likelihood' =
                  [neg_ln |-> total_log_likelihood, over |-> WordCount(words)]
            /\ pc' = "done"
            /\ UNCHANGED raised
    /\ UNCHANGED <<buildVars, vocabVars, words, word_pos, total_log_likelihood,
                   wordVars, sampleVars, genVars>>

WordChars == {"a", "B", "c"}

RECURSIVE SeqsUpTo(_, _)
\* the sequences over S of length at most n
SeqsUpTo(S, n) ==
    IF n = 0 THEN {<<>>}
    ELSE LET shorter == SeqsUpTo(S, n - 1)
         IN shorter \cup {Append(q, x) : q \in shorter, x \in S}

ScoreMatrices == {Empirical, Laplace}

InitScore ==
    /\ pc = "corpus_loop"
    /\ raised = "none"
    /\ words \in SeqsUpTo(SeqsUpTo(WordChars, MaxWordLen), MaxWords)
    /\ \E t \in TokenPairs :
        /\ start_token = t[1]
        /\ end_token = t[2]
        /\ idx_to_char = IdxToChar(t[1], t[2])
        /\ char_to_index = CharToIdx(IdxToChar(t[1], t[2]))
    /\ bigram_probabilities \in ScoreMatrices
    /\ word_pos = 0
    /\ total_log_likelihood = One
    /\ mean_log_likelihood = Unused
    /\ processed_word = <<>> /\ char_pos = 0 /\ log_likelihood = One
    /\ bigrams = <<>> /\ returned = <<>>
    /\ NoBuild /\ NoSample /\ NoGen

NextScore ==
    \/ EnterLogLikelihood
    \/ ScoreBigram
    \/ ReturnLogLikelihood
    \/ ReturnNegMean

SpecScore == InitScore /\ [][NextScore]_vars

\* the symbols of the processed word when each token counts as one symbol
SymbolsOf(word) ==
    <<start_token>> \o [i \in 1 .. Len(word) |-> <<LowerChar(word[i])>>]
        \o <<end_token>>

\* every symbol of the lower-cased word is in the vocabulary
KnownWord(word) ==
    \A i \in 1 .. Len(word) : <<LowerChar(word[i])>> \in DOMAIN char_to_index

TokensKnown ==
    start_token \in DOMAIN char_to_index /\ end_token \in DOMAIN char_to_index

\* the n + 1 index pairs (start, w1), (w1, w2), ..., (wn, end)
SymbolBigrams(word) ==
    [i \in 1 .. Len(word) + 1 |->
        <<char_to_index[SymbolsOf(word)[i]], char_to_index[SymbolsOf(word)[i + 1]]>>]

RECURSIVE ProductOver(_, _)
\* the product of P[j][k] over the first n pairs of a list: the sum of
\* their logarithms
ProductOver(pairs, n) ==
    IF n = 0 THEN One
    ELSE FracMul(ProductOver(pairs, n - 1),
                 bigram_probabilities[pairs[n][1]][pairs[n][2]])

SymbolLikelihood(word) ==
    ProductOver(SymbolBigrams(word), Len(word) + 1)

\* C5: for a word w1..wn of ordinary symbols and any start and end tokens
\* (the defaults "<S>" and "<E>" included) calculate_log_likelihood takes
\* each token as one symbol and returns the sum of ln P[idx(a), idx(b)] over
\* exactly the n + 1 pairs (start, w1), ..., (wn, end); the result is <= 0.
C5_ScoreWord ==
    \A w \in 1 .. Len(words) :
        (TokensKnown /\ KnownWord(words[w])) =>
            /\ ~(pc = "raised" /\ word_pos = w - 1)
            /\ w <= Len(returned) =>
                /\ returned[w].bigrams = SymbolBigrams(words[w])
                /\ FracEq(returned[w].value, SymbolLikelihood(words[w]))
                /\ FracLe(returned[w].value, One)

HasAbsentSymbol(word) ==
    \E i \in 1 .. Len(word) : <<word[i]>> \notin DOMAIN char_to_index

HasAbsentLowerSymbol(word) == ~KnownWord(word)

\* the words of the corpus with a symbol that is not in the vocabulary: of
\* the word as passed, and of the word lower-cased
WithAbsentSymbol == {w \in 1 .. Len(words) : HasAbsentSymbol(words[w])}

WithAbsentLowerSymbol == {w \in 1 .. Len(words) : HasAbsentLowerSymbol(words[w])}

\* the first of a non-empty set of positions
First(S) == CHOOSE w \in S : \A v \in S : w <= v

\* the call on the corpus never returns and no call on word w or a later one
\* returns a score; once over, the call has raised KeyError
FailsAtOrBefore(w) ==
    /\ pc # "done"
    /\ Len(returned) < w
    /\ word_pos < w
    /\ pc = "raised" => raised = "KeyError"

C7_EmptyCorpusFails ==
    (words = <<>> /\ pc \in {"done", "raised"}) =>
        /\ pc = "raised"
        /\ raised \notin {"none", "ZeroDivisionError"}

RECURSIVE CorpusLikelihood(_, _)
\* the product of the likelihoods of the first n words: the sum of their logs
CorpusLikelihood(ws, n) ==
    IF n = 0 THEN One
    ELSE FracMul(CorpusLikelihood(ws, n - 1), SymbolLikelihood(ws[n]))

\* C8: for a non-empty word list the returned value is
\* -(sum over the words of calculate_log_likelihood(w)) / len(words), a
\* repeated word counted once per occurrence; for one word it is the negated
\* log-likelihood of that word.
C8_NegMean ==
    pc = "done" =>
        /\ Len(words) > 0
        /\ mean_log_likelihood.over = Len(words)
        /\ FracEq(mean_log_likelihood.neg_ln, CorpusLikelihood(words, Len(words)))
        /\ \A w \in 1 .. Len(words) :
            FracEq(returned[w].value, SymbolLikelihood(words[w]))
        /\ Len(words) = 1 =>
            FracEq(mean_log_likelihood.neg_ln, returned[1].value)

\* C8 witness: a corpus that repeats a word was scored; P(^ a)P(a b)P(b $) is
\* 2/5 * 2/5 * 2/5 under add-one smoothing, and the mean is over two words.
C8_Witness ==
    /\ pc = "done"
    /\ words = << <<"a", "B">>, <<"a", "B">> >>
    /\ bigram_probabilities = Laplace
    /\ mean_log_likelihood.over = 2
    /\ FracEq(mean_log_likelihood.neg_ln, Frac(8 * 8, 125 * 125))

(***************************************************************************)
(* sample_next_character (lines 69-93).                                    *)
(***************************************************************************)
Returned(v) == [raised |-> "none", value |-> v]

Raised(e) == [raised |-> e, value |-> Unused]

\* line 86: tensor[i] for a Python int i; a negative i counts from the end
RowIndex(matrix, i) ==
    LET n == Cardinality(DOMAIN matrix)
    IN IF 0 <= i /\ i < n THEN i
       ELSE IF -n <= i /\ i < 0 THEN i + n
       ELSE -1

\* line 89: torch.multinomial accepts any finite non-negative weights whose
\* sum is positive, normalised or not; it never draws a weight of zero
ValidWeights(row) ==
    /\ \A j \in DOMAIN row : IsFinite(row[j]) /\ row[j].num >= 0
    /\ \E j \in DOMAIN row : row[j].num > 0

Drawable(row) == {j \in DOMAIN row : row[j].num > 0}

\* every outcome of one call: a returned symbol or a raised exception
sample_next_character(index, matrix, itc) ==
    IF RowIndex(matrix, index) = -1 THEN {Raised("IndexError")}
    ELSE LET current_probs == matrix[RowIndex(matrix, index)]
         IN IF ~ValidWeights(current_probs) THEN {Raised("RuntimeError")}
            ELSE {IF j \in DOMAIN itc THEN Returned(itc[j]) ELSE Raised("KeyError") :
                     j \in Drawable(current_probs)}

\* the counts of a corpus as they are: the end token is followed by nothing
RawCounts ==
    Matrix(<< <<0, 0, 2, 1>>, <<0, 0, 0, 0>>, <<0, 2, 0, 1>>, <<0, 1, 1, 0>> >>)

\* a matrix of weights that is not normalised: the counts themselves
Unnormalised ==
    [i \in DOMAIN RawCounts |->
        [j \in DOMAIN RawCounts[i] |-> Frac(RawCounts[i][j], 1)]]

\* the unsmoothed matrix of RawCounts: the row of the end token is 0/0
Undefined == bigrams_count_to_probabilities(RawCounts, 0)

SampleMatrices == {Empirical, Laplace, Endless, Unnormalised, Undefined}

\* an index -> symbol dict that lacks the last index
Truncated(itc) == [i \in DOMAIN itc \ {VocabSize - 1} |-> itc[i]]

InitSample ==
    /\ pc = "call"
    /\ raised = "none"
    /\ bigram_probabilities \in SampleMatrices
    /\ current_char_index \in -(VocabSize + 1) .. VocabSize
    /\ \E t \in TokenPairs :
        /\ start_token = t[1]
        /\ end_token = t[2]
        /\ idx_to_char \in {IdxToChar(t[1], t[2]), Truncated(IdxToChar(t[1], t[2]))}
        /\ char_to_index = CharToIdx(IdxToChar(t[1], t[2]))
    /\ next_char = Unused
    /\ NoBuild /\ NoCorpus /\ NoWord /\ NoGen

SampleNextCharacter ==
    /\ pc = "call"
    /\ \E outcome \in sample_next_character(current_char_index,
                                            bigram_probabilities, idx_to_char) :
        /\ raised' = outcome.raised
        /\ next_char' = outcome.value
        /\ pc' = IF outcome.raised = "none" THEN "done" ELSE "raised"
    /\ UNCHANGED <<buildVars, vocabVars, corpusVars, wordVars,
                   current_char_index, genVars>>

NextSample == SampleNextCharacter

SpecSample == InitSample /\ [][NextSample]_vars

RowSumsToOne(row) == FracEq(SumFracs(row, DOMAIN row), One)

\* C9: sample_next_character fails, and returns no symbol, whenever the index
\* is outside 0 .. N-1 (negative indices included) or the selected row does
\* not sum to 1; it returns a symbol only for an in-range index whose row is
\* a valid distribution.
C9_SamplerRejects ==
    pc = "done" =>
        /\ current_char_index \in DOMAIN bigram_probabilities
        /\ RowSumsToOne(bigram_probabilities[current_char_index])

(***************************************************************************)
(* generate_name (lines 96-137).                                           *)
(***************************************************************************)
\* a range that runs to n inclusive
RangeHasNextInclusive(i, n) == i <= n

\* line 128: range(n) has an element left after i iterations
RangeHasNext(i, n) == i < n

\* a comparison with the wrong token
StopsAtStart(symbol, end) == symbol = start_token

\* line 133: current_char == end_token
StopsAt(symbol, end) == symbol = end

\* lines 128-135: one iteration of `for _ in range(max_length)`; sampling the
\* end token breaks out of the loop, and line 137 returns
GenerateStep ==
    /\ pc = "gen_loop"
    /\ RangeHasNext(iteration, max_length)
    /\ iteration' = iteration + 1
    /\ IF current_char \notin DOMAIN char_to_index
       THEN /\ pc' = "raised"
            /\ raised' = "KeyError"
            /\ UNCHANGED <<current_char, generated_name, sampler_calls, sampled>>
       ELSE \E outcome \in sample_next_character(char_to_index[current_char],
                                bigram_probabilities, idx_to_char) :
            /\ sampler_calls' = Append(sampler_calls, current_char)
            /\ IF outcome.raised # "none"
               THEN /\ pc' = "raised"
                    /\ raised' = outcome.raised
                    /\ UNCHANGED <<current_char, generated_name, sampled>>
               ELSE /\ current_char' = outcome.value
                    /\ sampled' = Append(sampled, outcome.value)
                    /\ raised' = raised
                    /\ IF StopsAt(outcome.value, end_token)
                       THEN pc' = "done" /\ generated_name' = generated_name
                       ELSE /\ pc' = pc
                            /\ generated_name' = generated_name \o outcome.value
    /\ UNCHANGED <<buildVars, vocabVars, corpusVars, wordVars, sampleVars,
                   max_length>>

\* line 137 once range(max_length) is exhausted
GenerateReturn ==
    /\ pc = "gen_loop"
    /\ ~RangeHasNext(iteration, max_length)
    /\ pc' = "done"
    /\ UNCHANGED <<raised, buildVars, vocabVars, corpusVars, wordVars,
                   sampleVars, genVars>>

GenMatrices == {Empirical, Laplace, Endless}

\* lines 124-125
InitGen ==
    /\ pc = "gen_loop"
    /\ raised = "none"
    /\ max_length \in 0 .. MaxLen
    /\ bigram_probabilities \in GenMatrices
    /\ \E t \in TokenPairs :
        /\ start_token = t[1]
        /\ end_token = t[2]
        /\ idx_to_char = IdxToChar(t[1], t[2])
        /\ char_to_index = CharToIdx(IdxToChar(t[1], t[2]))
        /\ current_char = t[1]
    /\ generated_name = <<>>
    /\ iteration = 0
    /\ sampler_calls = <<>>
    /\ sampled = <<>>
    /\ NoBuild /\ NoCorpus /\ NoWord /\ NoSample

NextGen == GenerateStep \/ GenerateReturn

SpecGen == InitGen /\ [][NextGen]_vars

\* the interpreter runs the call to its end: a step that can be taken is taken
FairSpecGen == SpecGen /\ WF_vars(NextGen)

\* the symbols appended to the output: those sampled, the end token excepted
OutputSymbols ==
    IF sampled # <<>> /\ sampled[Len(sampled)] = end_token
    THEN SubSeq(sampled, 1, Len(sampled) - 1)
    ELSE sampled

RECURSIVE Concat(_)
\* the strings of a list joined in order
Concat(strs) ==
    IF strs = <<>> THEN <<>> ELSE Head(strs) \o Concat(Tail(strs))

\* C2: for every max_length L >= 0 and every probability matrix (also one in
\* which no reachable row gives the end token a positive probability)
\* generate_name terminates after at most L calls of the sampler and returns
\* at most L symbols; reaching the bound is a normal return, not an error.
C2_Terminates ==
    /\ [](/\ Len(sampler_calls) <= max_length
          /\ Len(OutputSymbols) <= max_length
          /\ generated_name = Concat(OutputSymbols)
          /\ pc # "raised" /\ raised = "none")
    /\ <>(pc = "done")

\* C2 witness: the bound ended a generation in which the end token was never
\* sampled: max_length calls, max_length symbols, returned without error.
C2_Witness ==
    /\ pc = "done"
    /\ raised = "none"
    /\ bigram_probabilities = Endless
    /\ max_length = MaxLen
    /\ Len(sampler_calls) = max_length
    /\ Len(OutputSymbols) = max_length
    /\ \A i \in 1 .. Len(sampled) : sampled[i] # end_token

\* C3: the string generate_name returns consists of ordinary symbols only:
\* neither the start token nor the end token is in it.
C3_OrdinaryOnly ==
    pc = "done" =>
        /\ generated_name = Concat(OutputSymbols)
        /\ \A i \in 1 .. Len(OutputSymbols) :
            OutputSymbols[i] # start_token /\ OutputSymbols[i] # end_token

\* C10: if the k-th sampled symbol is the first to equal the end token the
\* generation is over at once: the sampler is not called again and the output
\* is the first k-1 sampled symbols joined in order; the sampler is called on
\* the start token first and on the latest sampled symbol afterwards.
C10_StopsAtEnd ==
    /\ \A i \in 1 .. Len(sampler_calls) :
        sampler_calls[i] = IF i = 1 THEN start_token ELSE sampled[i - 1]
    /\ \A k \in 1 .. Len(sampled) :
        sampled[k] = end_token =>
            /\ k = Len(sampled)
            /\ k <= max_length
            /\ pc = "done"
            /\ Len(sampler_calls) = k
            /\ generated_name = Concat(SubSeq(sampled, 1, k - 1))

\* C10 witness: the end token came third of at most four; the output is the
\* two symbols sampled before it, in order.
C10_Witness ==
    /\ pc = "done"
    /\ max_length = 4
    /\ start_token = DefaultStart
    /\ sampled = << <<"b">>, <<"a">>, end_token >>
    /\ sampler_calls = << start_token, <<"b">>, <<"a">> >>
    /\ generated_name = <<"b", "a">>

====
